---------------------------- MODULE Spec2Model ----------------------------
(***************************************************************************)
(* A model of HUTformer.py: the construction of a HUTformer (parameter     *)
(* registration, checkpoint load, freeze), the tensor shapes its forward   *)
(* pass produces or fails on, and the index arithmetic of WindowAttention, *)
(* SegmentMerging and AttentionLayer.                                      *)
(*                                                                         *)
(* Tensors are modelled by their shapes (tuples of naturals) where only    *)
(* the shape decides the behaviour, and by the provenance of each element  *)
(* where a layer only moves elements around.  Floating-point values are    *)
(* not modelled.  A step of the framework that raises is the shape FAIL.   *)
(* A CUDA device (lines 154, 217) and pandas (line 315) are taken to be    *)
(* present, and assertions to be enabled.                                  *)
(***************************************************************************)
EXTENDS Integers, Sequences, FiniteSets

VARIABLES
    args,           \* the arguments HUTformer.__init__ was called with
    pc,             \* position inside HUTformer.__init__ / state of the instance
    attrs,          \* self.num_patch, self.dim_U and the window sizes of the stages
    params,         \* the values of named_parameters(), in order: [origin, version]
    requires_grad,  \* para.requires_grad of named_parameters(), in order
    ckpt,           \* what torch.load(pre_train)["model_state_dict"] returned
    out,            \* the result of the last forward call
    wa,             \* a WindowAttention instance and its last forward
    sm,             \* a SegmentMerging instance and its last forward
    al              \* an AttentionLayer instance and its last forward

vars == <<args, pc, attrs, params, requires_grad, ckpt, out, wa, sm, al>>

---------------------------------------------------------------------------
(* Bounds of the model *)

MaxLen == 16
MaxLenPatch == 2
MaxBatch == 2
MaxChannels == 4
MaxTrainSteps == 1
MaxWh == 3
MaxWw == 4
MaxTokens == 8
MaxSeq == 6
MaxDim == 3
MaxHeads == 3
MaxHeadDim == 2
MaxQueries == 3
MaxKeys == 2

(* Hyper-parameters fixed in HUTformer.__init__ *)

num_heads == 8
embed_dim == 64
dim_SE == 16

\* the default of NUM_NODES
DefaultNodes == 207

\* the default of len_hist and of len_patch
DefaultLenHist == 288
DefaultLenPatch == 12

\* the node counts a model is built with
NodeCounts == {2, DefaultNodes}

NONE == "None"
FAIL == << -1 >>

Max(a, b) == IF a >= b THEN a ELSE b

\* int(a / b) for naturals a and b > 0: the float quotient truncated
IntDiv(a, b) == a \div b

---------------------------------------------------------------------------
(* Parameter names.  A name is the path of attribute names from the model  *)
(* to the parameter; named_parameters() joins the path with "." and yields *)
(* the parameters in the order of registration.                            *)

Prefix(p, names) == [i \in 1..Len(names) |-> <<p>> \o names[i]]

LinearParams == << <<"weight">>, <<"bias">> >>

LinearNoBiasParams == << <<"weight">> >>

LayerNormParams == << <<"weight">>, <<"bias">> >>

\* a module's own parameters come first, then those of its children
WindowAttentionParams ==
    << <<"logit_scale">>, <<"q_bias">>, <<"v_bias">> >>
    \o Prefix("cpb_mlp", Prefix("0", LinearParams) \o Prefix("2", LinearNoBiasParams))
    \o Prefix("qkv", LinearNoBiasParams)
    \o Prefix("proj", LinearParams)

SegmentMergingParams == Prefix("norm", LayerNormParams)

AttentionLayerParams ==
    Prefix("query_projection", LinearParams)
    \o Prefix("key_projection", LinearParams)
    \o Prefix("value_projection", LinearParams)
    \o Prefix("out_projection", LinearParams)
    \o Prefix("norm", LayerNormParams)
    \o Prefix("norm_1", LayerNormParams)

SequentialParams(m0, m1) == Prefix("0", m0) \o Prefix("1", m1)

\* the parameters registered by lines 285-296
EncoderStageParams ==
    << <<"SE">> >>
    \o Prefix("embedding", LinearParams)
    \o Prefix("STPE", LinearParams)
    \o Prefix("encoder_1", WindowAttentionParams)
    \o Prefix("encoder_2", SequentialParams(SegmentMergingParams, WindowAttentionParams))
    \o Prefix("encoder_3", SequentialParams(SegmentMergingParams, WindowAttentionParams))
    \o Prefix("encoder_project", LinearParams)

\* the parameters registered by lines 303-309
DecoderStageParams ==
    Prefix("decoder_1", WindowAttentionParams)
    \o Prefix("decoder_project_0", LinearParams)
    \o Prefix("decoder_2", SequentialParams(AttentionLayerParams, WindowAttentionParams))
    \o Prefix("decoder_3", SequentialParams(AttentionLayerParams, WindowAttentionParams))
    \o Prefix("decoder_project", LinearParams)

\* named_parameters() once n parameters are registered: the first n names
ParameterNames == EncoderStageParams \o DecoderStageParams

Range(f) == { f[i] : i \in DOMAIN f }

\* the characters of an attribute name
Chars(s) ==
    CASE s = "SE" -> <<"S","E">>
      [] s = "embedding" -> <<"e","m","b","e","d","d","i","n","g">>
      [] s = "STPE" -> <<"S","T","P","E">>
      [] s = "encoder_1" -> <<"e","n","c","o","d","e","r","_","1">>
      [] s = "encoder_2" -> <<"e","n","c","o","d","e","r","_","2">>
      [] s = "encoder_3" -> <<"e","n","c","o","d","e","r","_","3">>
      [] s = "encoder_project" -> <<"e","n","c","o","d","e","r","_","p","r","o","j","e","c","t">>
      [] s = "decoder_1" -> <<"d","e","c","o","d","e","r","_","1">>
      [] s = "decoder_2" -> <<"d","e","c","o","d","e","r","_","2">>
      [] s = "decoder_3" -> <<"d","e","c","o","d","e","r","_","3">>
      [] s = "decoder_project_0" -> <<"d","e","c","o","d","e","r","_","p","r","o","j","e","c","t","_","0">>
      [] s = "decoder_project" -> <<"d","e","c","o","d","e","r","_","p","r","o","j","e","c","t">>
      [] s = "weight" -> <<"w","e","i","g","h","t">>
      [] s = "bias" -> <<"b","i","a","s">>
      [] s = "logit_scale" -> <<"l","o","g","i","t","_","s","c","a","l","e">>
      [] s = "q_bias" -> <<"q","_","b","i","a","s">>
      [] s = "v_bias" -> <<"v","_","b","i","a","s">>
      [] s = "cpb_mlp" -> <<"c","p","b","_","m","l","p">>
      [] s = "qkv" -> <<"q","k","v">>
      [] s = "proj" -> <<"p","r","o","j">>
      [] s = "norm" -> <<"n","o","r","m">>
      [] s = "norm_1" -> <<"n","o","r","m","_","1">>
      [] s = "query_projection" -> <<"q","u","e","r","y","_","p","r","o","j","e","c","t","i","o","n">>
      [] s = "key_projection" -> <<"k","e","y","_","p","r","o","j","e","c","t","i","o","n">>
      [] s = "value_projection" -> <<"v","a","l","u","e","_","p","r","o","j","e","c","t","i","o","n">>
      [] s = "out_projection" -> <<"o","u","t","_","p","r","o","j","e","c","t","i","o","n">>
      [] s = "0" -> <<"0">>
      [] s = "1" -> <<"1">>
      [] s = "2" -> <<"2">>
      [] s = "decoder" -> <<"d","e","c","o","d","e","r">>
      [] s = "encoder" -> <<"e","n","c","o","d","e","r">>

\* the name named_parameters() yields for a path: its parts joined with "."
RECURSIVE FullName(_)
FullName(path) ==
    IF Len(path) = 1 THEN Chars(path[1])
    ELSE Chars(path[1]) \o <<".">> \o FullName(Tail(path))

\* sub in name, for strings as character sequences
Contains(name, sub) ==
    \E i \in 1..(Len(name) - Len(sub) + 1) :
        \A k \in 1..Len(sub) : name[i + k - 1] = sub[k]

\* a faulty variant of NamedAsDecoder: the parameter counts as a decoder
\* parameter when its name lacks "encoder"
NamedAsDecoderByEncoder(path) == ~ Contains(FullName(path), Chars("encoder"))

\* 'decoder' in name
NamedAsDecoder(path) == Contains(FullName(path), Chars("decoder"))

---------------------------------------------------------------------------
(* Shapes.  A shape is a tuple of naturals; FAIL is the shape of a step    *)
(* that raised.  Every operator returns FAIL when given FAIL.              *)

RECURSIVE Numel(_)
Numel(s) == IF Len(s) = 0 THEN 1 ELSE s[1] * Numel(Tail(s))

Last(s) == s[Len(s)]

Front(s) == SubSeq(s, 1, Len(s) - 1)

\* nn.Linear(in_features, out_features) and F.linear applied to a tensor
Linear(s, in_features, out_features) ==
    IF s = FAIL THEN FAIL
    ELSE IF Last(s) # in_features THEN FAIL
    ELSE Front(s) \o <<out_features>>

\* nn.LayerNorm(d) applied to a tensor
LayerNorm(s, d) ==
    IF s = FAIL THEN FAIL
    ELSE IF Last(s) # d THEN FAIL
    ELSE s

\* tensor.reshape / tensor.view with one dimension given as -1
Reshape(s, target) ==
    IF s = FAIL THEN FAIL
    ELSE LET known == Numel([i \in 1..Len(target) |->
                              IF target[i] = -1 THEN 1 ELSE target[i]])
         IN IF known = 0 THEN FAIL
            ELSE IF Numel(s) % known # 0 THEN FAIL
            ELSE [i \in 1..Len(target) |->
                    IF target[i] = -1 THEN Numel(s) \div known ELSE target[i]]

\* tensor.reshape / tensor.view to a shape given in full
ReshapeExact(s, target) ==
    IF s = FAIL THEN FAIL
    ELSE IF Numel(s) # Numel(target) THEN FAIL
    ELSE target

\* torch.cat(..., dim=-1) of three tensors of rank 3
Cat3(s1, s2, s3) ==
    IF s1 = FAIL \/ s2 = FAIL \/ s3 = FAIL THEN FAIL
    ELSE IF Front(s1) # Front(s2) \/ Front(s1) # Front(s3) THEN FAIL
    ELSE Front(s1) \o <<Last(s1) + Last(s2) + Last(s3)>>

\* the shape of a + b under broadcasting, for tensors of equal rank
Broadcast(s1, s2) ==
    IF s1 = FAIL \/ s2 = FAIL THEN FAIL
    ELSE IF \E i \in 1..Len(s1) : s1[i] # s2[i] /\ s1[i] # 1 /\ s2[i] # 1 THEN FAIL
    ELSE [i \in 1..Len(s1) |-> IF s1[i] = 1 THEN s2[i] ELSE s1[i]]

\* rearrange(x, 'b n (p t) -> b n p t', t=t)
RearrangePatches(s, t) ==
    IF s = FAIL THEN FAIL
    ELSE IF s[3] % t # 0 THEN FAIL
    ELSE <<s[1], s[2], s[3] \div t, t>>

\* rearrange(x, '(b n) p d -> b n (p d)', b=b, n=n)
RearrangeNodes(s, b, n) ==
    IF s = FAIL THEN FAIL
    ELSE IF s[1] # b * n THEN FAIL
    ELSE <<b, n, s[2] * s[3]>>

\* rearrange(x, 'b (p d) c -> b p (d c)', d=2)
RearrangeMerge(s) ==
    IF s = FAIL THEN FAIL
    ELSE IF s[2] % 2 # 0 THEN FAIL
    ELSE <<s[1], s[2] \div 2, 2 * s[3]>>

\* torch.arange(a, b) raises when b < a (bounds inconsistent with the step)
ArangeRaises(a, b) == b < a

\* torch.arange(a, b): the integers a, a+1, ..., b-1
Arange(a, b) == [k \in 1..Max(b - a, 0) |-> a + k - 1] \o << >>

---------------------------------------------------------------------------
(* WindowAttention.  The buffers are built as tuples (... \o << >>).        *)

\* WindowAttention.__init__ raises where it builds relative_coords_h or
\* relative_coords_w for a window with a side of 0
WindowAttentionRaises(window_size) ==
    \/ ArangeRaises(-(window_size[1] - 1), window_size[1])
    \/ ArangeRaises(-(window_size[2] - 1), window_size[2])

\* relative_coords_table before its element-wise normalisation, as the rows
\* cpb_mlp(...).view(-1, num_heads) has: one per pair of offsets
relative_coords_table(window_size) ==
    LET relative_coords_h == Arange(-(window_size[1] - 1), window_size[1])
        relative_coords_w == Arange(-(window_size[2] - 1), window_size[2])
        nw == Len(relative_coords_w)
    IN [r \in 1..(Len(relative_coords_h) * nw) |->
          <<relative_coords_h[((r - 1) \div nw) + 1],
            relative_coords_w[((r - 1) % nw) + 1]>>] \o << >>

\* coords_flatten: row 1 holds the h coordinate and row 2 the w coordinate of
\* each of the Wh*Ww positions, in row-major order
coords_flatten(window_size) ==
    LET coords_h == Arange(0, window_size[1])
        coords_w == Arange(0, window_size[2])
        nw == Len(coords_w)
        n == Len(coords_h) * nw
    IN << [i \in 1..n |-> coords_h[((i - 1) \div nw) + 1]] \o << >>,
          [i \in 1..n |-> coords_w[((i - 1) % nw) + 1]] \o << >> >>

\* a faulty variant of IndexBase: the h offset is scaled by 2*Ww
IndexBaseWide(window_size) == 2 * window_size[2]

\* a faulty variant of IndexBase: the h offset is scaled by Ww
IndexBaseNarrow(window_size) == window_size[2]

\* the factor the shifted h offset is multiplied by
IndexBase(window_size) == 2 * window_size[2] - 1

\* relative_position_index: Wh*Ww x Wh*Ww
relative_position_index(window_size) ==
    LET cf == coords_flatten(window_size)
        n == Len(cf[1])
    IN [i \in 1..n |-> [j \in 1..n |->
          (cf[1][i] - cf[1][j] + window_size[1] - 1) * IndexBase(window_size)
          + (cf[2][i] - cf[2][j] + window_size[2] - 1)] \o << >>] \o << >>

\* table[index.view(-1)]: every index must address a row of the table
\* (a negative index counts from the end)
GatherOK(rows, index) ==
    \A i \in 1..Len(index) : \A j \in 1..Len(index[i]) :
        /\ index[i][j] < rows
        /\ index[i][j] >= -rows

\* WindowAttention.forward on a tensor of shape x = (B_, N, C), mask=None,
\* for a module built with (dim, window_size, num_heads) whose buffers are
\* table and index
WindowAttentionForward(x, dim, window_size, heads, table, index) ==
    IF x = FAIL THEN FAIL
    ELSE
    LET B_ == x[1]
        N == x[2]
        C == x[3]
        M == window_size[1] * window_size[2]
        qkv == Reshape(Linear(x, dim, dim * 3), <<B_, N, 3, heads, -1>>)
        attn == <<B_, heads, N, N>>
        bias == Reshape(<<Len(index) * Len(index), heads>>, <<M, M, -1>>)
        biased == Broadcast(attn, <<1, bias[3], bias[1], bias[2]>>)
    IN IF qkv = FAIL THEN FAIL
       ELSE IF ~ GatherOK(Len(table), index) THEN FAIL
       ELSE IF bias = FAIL THEN FAIL
       ELSE IF biased = FAIL THEN FAIL
       ELSE IF biased[4] # N THEN FAIL      \* attn @ v
       ELSE Linear(ReshapeExact(<<B_, biased[3], heads, qkv[5]>>, <<B_, N, C>>),
                   dim, dim)

---------------------------------------------------------------------------
(* AttentionLayer and FullAttention, on shapes *)

\* FullAttention.forward on queries (B, L, H, E), keys (B, S, H, E) and
\* values (B, S, H, D)
FullAttentionShape(queries, keys, values) ==
    IF queries = FAIL \/ keys = FAIL \/ values = FAIL THEN FAIL
    ELSE IF keys[1] # queries[1] \/ keys[3] # queries[3] \/ keys[4] # queries[4] THEN FAIL
    ELSE IF values[1] # queries[1] \/ values[2] # keys[2] \/ values[3] # queries[3] THEN FAIL
    ELSE Broadcast(<<queries[1], queries[2], queries[3], values[4]>>, queries)

\* AttentionLayer.forward on x = (queries, keys, values), each of rank 3
AttentionLayerShape(queries, keys, values, d_model, n_heads) ==
    IF queries = FAIL \/ keys = FAIL \/ values = FAIL THEN FAIL
    ELSE
    LET B == queries[1]
        L == queries[2]
        S == keys[2]
        d_keys == IntDiv(d_model, n_heads)
        d_values == IntDiv(d_model, n_heads)
        q == Reshape(Linear(LayerNorm(queries, d_model), d_model, d_keys * n_heads),
                     <<B, L, n_heads, -1>>)
        k == Reshape(Linear(LayerNorm(keys, d_model), d_model, d_keys * n_heads),
                     <<B, S, n_heads, -1>>)
        v == Reshape(Linear(LayerNorm(values, d_model), d_model, d_values * n_heads),
                     <<B, S, n_heads, -1>>)
        att == Reshape(FullAttentionShape(q, k, v), <<B, L, -1>>)
    IN Broadcast(Linear(LayerNorm(att, d_model), d_values * n_heads, d_model), att)

---------------------------------------------------------------------------
(* HUTformer *)

Modes == {"encoder", "decoder", "train"}

NoAttrs ==
    [num_patch |-> 0, dim_U |-> 0, STPE_in |-> 0, len_pred |-> 0,
     encoder_1 |-> <<0, 0>>, encoder_2 |-> <<0, 0>>, encoder_3 |-> <<0, 0>>,
     decoder |-> <<0, 0>>]

NoCheckpoint == [read |-> FALSE, keys |-> {}]

NoCall ==
    [called |-> FALSE, B |-> 0, C |-> 0, S |-> FAIL, U |-> FAIL,
     H_1 |-> FAIL, M_2 |-> FAIL, H_2 |-> FAIL, M_3 |-> FAIL, H_3 |-> FAIL,
     predict_encoder |-> FAIL, S_dec |-> FAIL, prediction |-> FAIL]

Fresh == [origin |-> "init", version |-> 0]

\* registering n more parameters: each starts freshly initialised, gradient on
Register(ps, n) == ps \o [i \in 1..n |-> Fresh]

RegisterGrad(rg, n) == rg \o [i \in 1..n |-> TRUE]

\* a faulty variant of EncoderAttrs: the third window is as wide as the second
EncoderAttrsSameWindow(a) ==
    LET num_patch == IntDiv(a.len_hist, a.len_patch)
    IN [num_patch |-> num_patch,
        dim_U     |-> num_patch * embed_dim,
        STPE_in   |-> num_patch * embed_dim + dim_SE + 2,
        len_pred  |-> a.len_pred,
        encoder_1 |-> <<2, IntDiv(num_patch, 2)>>,
        encoder_2 |-> <<2, IntDiv(num_patch, 4)>>,
        encoder_3 |-> <<2, IntDiv(num_patch, 4)>>,
        decoder   |-> <<0, 0>>]

\* a faulty variant of EncoderAttrs: STPE sized for one covariate
EncoderAttrsOneCovariate(a) ==
    LET num_patch == IntDiv(a.len_hist, a.len_patch)
    IN [num_patch |-> num_patch,
        dim_U     |-> num_patch * embed_dim,
        STPE_in   |-> num_patch * embed_dim + dim_SE + 1,
        len_pred  |-> a.len_pred,
        encoder_1 |-> <<2, IntDiv(num_patch, 2)>>,
        encoder_2 |-> <<2, IntDiv(num_patch, 4)>>,
        encoder_3 |-> <<2, IntDiv(num_patch, 8)>>,
        decoder   |-> <<0, 0>>]

\* the attributes and layer sizes lines 273-296 set from the arguments
EncoderAttrs(a) ==
    LET num_patch == IntDiv(a.len_hist, a.len_patch)
    IN [num_patch |-> num_patch,
        dim_U     |-> num_patch * embed_dim,
        STPE_in   |-> num_patch * embed_dim + dim_SE + 2,
        len_pred  |-> a.len_pred,
        encoder_1 |-> <<2, IntDiv(num_patch, 2)>>,
        encoder_2 |-> <<2, IntDiv(num_patch, 4)>>,
        encoder_3 |-> <<2, IntDiv(num_patch, 8)>>,
        decoder   |-> <<0, 0>>]

\* one of the WindowAttention stages of lines 291-295 raises
EncoderRaises(self) ==
    \/ WindowAttentionRaises(self.encoder_1)
    \/ WindowAttentionRaises(self.encoder_2)
    \/ WindowAttentionRaises(self.encoder_3)

\* the buffers WindowAttention.__init__ registers for a stage of the model,
\* whose window is (2, k): entry k holds those of window (2, k)
StageBuffers ==
    [k \in 1..MaxLen |->
        [relative_coords_table   |-> relative_coords_table(<<2, k>>),
         relative_position_index |-> relative_position_index(<<2, k>>)]] \o << >>

\* a WindowAttention stage of the model applied to x
Stage(x, dim, window_size) ==
    WindowAttentionForward(x, dim, window_size, num_heads,
                           StageBuffers[window_size[2]].relative_coords_table,
                           StageBuffers[window_size[2]].relative_position_index)

\* SegmentMerging(dim).forward on a shape
SegmentMergingShape(x, dim) == LayerNorm(RearrangeMerge(x), 2 * dim)

\* tensor.repeat(1, 2, 1)
Repeat2(x) == IF x = FAIL THEN FAIL ELSE <<x[1], 2 * x[2], x[3]>>

\* tensor.permute(0, 2, 1).unsqueeze(-1)
PermuteUnsqueeze(x) == IF x = FAIL THEN FAIL ELSE <<x[1], x[3], x[2], 1>>

\* HUTformer.forward on history_data of shape (B, L, N, C) and future_data of
\* shape (B, L2, N, C): every intermediate shape, FAIL from the step that raises
ForwardTrace(self, a, B, L, N, C) ==
    LET patches == RearrangePatches(<<B, N, L>>, a.len_patch)
        S == Cat3(Reshape(Linear(patches, a.len_patch, embed_dim), <<B, N, -1>>),
                  <<B, a.NUM_NODES, dim_SE>>,
                  <<B, N, C - 1>>)
        U == Reshape(Linear(S, self.STPE_in, self.dim_U), <<B * N, -1, embed_dim>>)
        H_1 == Stage(U, embed_dim, self.encoder_1)
        M_2 == SegmentMergingShape(H_1, embed_dim)
        H_2 == Stage(M_2, embed_dim * 2, self.encoder_2)
        M_3 == SegmentMergingShape(H_2, embed_dim * 2)
        H_3 == Stage(M_3, embed_dim * 4, self.encoder_3)
        predict_encoder == Linear(RearrangeNodes(H_3, B, N), self.dim_U, self.len_pred)
        patches_dec == RearrangePatches(predict_encoder, a.len_patch)
        S_dec == Cat3(Reshape(Linear(patches_dec, a.len_patch, embed_dim), <<B, N, -1>>),
                      <<B, a.NUM_NODES, dim_SE>>,
                      <<B, N, C - 1>>)
        U_dec == Reshape(Linear(S_dec, self.STPE_in, self.dim_U),
                         <<B * N, -1, embed_dim>>)
        D_1 == Stage(U_dec, embed_dim, self.decoder)
        D_2 == Stage(AttentionLayerShape(Repeat2(Linear(H_2, embed_dim * 2, embed_dim)),
                                         D_1, D_1, embed_dim, num_heads),
                     embed_dim, self.decoder)
        D_3 == Stage(AttentionLayerShape(H_1, D_2, D_2, embed_dim, num_heads),
                     embed_dim, self.decoder)
    IN [called |-> TRUE, B |-> B, C |-> C, S |-> S, U |-> U,
        H_1 |-> H_1, M_2 |-> M_2, H_2 |-> H_2, M_3 |-> M_3, H_3 |-> H_3,
        predict_encoder |-> predict_encoder,
        S_dec |-> IF a.mode = "encoder" THEN FAIL ELSE S_dec,
        prediction |->
            IF a.mode = "encoder" THEN PermuteUnsqueeze(predict_encoder)
            ELSE PermuteUnsqueeze(Reshape(Linear(D_3, embed_dim, a.len_patch),
                                          <<B, N, -1>>))]

\* the files torch.load(pre_train) may find: unreadable, or a state_dict with
\* these keys whose tensors have (or have not) the shapes of this model's
CheckpointKeySets ==
    { Range(EncoderStageParams),
      Range(EncoderStageParams) \cup Range(DecoderStageParams),
      { <<"SE">>, <<"decoder_project", "weight">>, <<"optimizer", "lr">> },
      {} }

CheckpointFiles ==
    [readable : {TRUE}, keys : CheckpointKeySets, shapes_match : BOOLEAN]
    \cup { [readable |-> FALSE, keys |-> {}, shapes_match |-> FALSE] }

\* the names of the parameters registered so far
Registered(ps) == { ParameterNames[i] : i \in DOMAIN ps }

\* load_state_dict(state_dict, strict=False): every own parameter with a key in
\* state_dict takes the checkpoint's value; other keys are ignored
LoadStateDict(ps, keys) ==
    [i \in DOMAIN ps |->
        IF ParameterNames[i] \in keys THEN [origin |-> "ckpt", version |-> 0] ELSE ps[i]]

HUTInit ==
    /\ args \in [mode : Modes, NUM_NODES : NodeCounts, len_hist : 1..MaxLen,
                 len_pred : 1..MaxLen, len_patch : 1..MaxLenPatch,
                 pre_train : {NONE, "encoder.pt"}]
    /\ pc = "new"
    /\ attrs = NoAttrs
    /\ params = << >>
    /\ requires_grad = << >>
    /\ ckpt = NoCheckpoint
    /\ out = NoCall

\* a faulty variant of InitEncoder: no early return in encoder mode
InitEncoderNoReturn ==
    /\ pc = "new"
    /\ IF args.mode \notin {"encoder", "decoder"} \/ EncoderRaises(EncoderAttrs(args))
       THEN /\ pc' = "raised"
            /\ UNCHANGED <<attrs, params, requires_grad>>
       ELSE /\ attrs' = EncoderAttrs(args)
            /\ params' = Register(params, Len(EncoderStageParams))
            /\ requires_grad' = RegisterGrad(requires_grad, Len(EncoderStageParams))
            /\ pc' = "load"
    /\ UNCHANGED <<args, ckpt, out, wa, sm, al>>

\* HUTformer.__init__, lines 271-298: the assertion on mode, the attributes,
\* the encoder-side parameters (a stage whose window has width 0 raises), and
\* the return in encoder mode
InitEncoder ==
    /\ pc = "new"
    /\ IF args.mode \notin {"encoder", "decoder"} \/ EncoderRaises(EncoderAttrs(args))
       THEN /\ pc' = "raised"
            /\ UNCHANGED <<attrs, params, requires_grad>>
       ELSE /\ attrs' = EncoderAttrs(args)
            /\ params' = Register(params, Len(EncoderStageParams))
            /\ requires_grad' = RegisterGrad(requires_grad, Len(EncoderStageParams))
            /\ pc' = IF args.mode = "encoder" THEN "ready" ELSE "load"
    /\ UNCHANGED <<args, ckpt, out, wa, sm, al>>

\* HUTformer.__init__, lines 299-301: the checkpoint, when a path is given
LoadCheckpoint ==
    /\ pc = "load"
    /\ IF args.pre_train = NONE
       THEN /\ pc' = "decoders"
            /\ UNCHANGED <<params, ckpt>>
       ELSE \E file \in CheckpointFiles :
            /\ ckpt' = [read |-> TRUE, keys |-> file.keys]
            /\ IF ~ file.readable
               THEN /\ pc' = "raised"
                    /\ UNCHANGED params
               ELSE /\ params' = LoadStateDict(params, file.keys)
                    /\ pc' = IF file.shapes_match \/ file.keys \cap Registered(params) = {}
                             THEN "decoders" ELSE "raised"
    /\ UNCHANGED <<args, attrs, requires_grad, out, wa, sm, al>>

\* HUTformer.__init__, lines 303-309: the decoder-side parameters
InitDecoder ==
    /\ pc = "decoders"
    /\ attrs' = [attrs EXCEPT !.decoder = <<2, IntDiv(attrs.num_patch, 2)>>]
    /\ params' = Register(params, Len(DecoderStageParams))
    /\ requires_grad' = RegisterGrad(requires_grad, Len(DecoderStageParams))
    /\ pc' = "freeze"
    /\ UNCHANGED <<args, ckpt, out, wa, sm, al>>

\* HUTformer.__init__, lines 311-317: the freeze loop
Freeze ==
    /\ pc = "freeze"
    /\ requires_grad' =
         [i \in DOMAIN requires_grad |->
            IF args.mode = "decoder" /\ ~ NamedAsDecoder(ParameterNames[i]) THEN FALSE
            ELSE requires_grad[i]]
    /\ pc' = "ready"
    /\ UNCHANGED <<args, attrs, params, ckpt, out, wa, sm, al>>

\* HUTformer.forward on a history tensor (B, len_hist, NUM_NODES, C) and a
\* future tensor (B, len_pred, NUM_NODES, C)
Forward ==
    /\ pc = "ready"
    /\ \E B \in 1..MaxBatch, C \in 2..MaxChannels :
         out' = ForwardTrace(attrs, args, B, args.len_hist, args.NUM_NODES, C)
    /\ UNCHANGED <<args, pc, attrs, params, requires_grad, ckpt, wa, sm, al>>

\* one optimizer step of the caller: every parameter that requires gradient
\* takes a new value, the others keep theirs
TrainStep ==
    /\ pc = "ready"
    /\ {p \in DOMAIN params : requires_grad[p] /\ params[p].version < MaxTrainSteps} # {}
    /\ params' = [p \in DOMAIN params |->
                    IF requires_grad[p]
                    THEN [params[p] EXCEPT !.version = @ + 1]
                    ELSE params[p]]
    /\ UNCHANGED <<args, pc, attrs, requires_grad, ckpt, out, wa, sm, al>>

HUTNext == InitEncoder \/ LoadCheckpoint \/ InitDecoder \/ Freeze \/ Forward \/ TrainStep

Idle == [made |-> FALSE]

Init == HUTInit /\ wa = Idle /\ sm = Idle /\ al = Idle

Next == HUTNext

Spec == Init /\ [][Next]_vars

\* Forward reads attrs and writes out only; TrainStep reads and writes params
\* only.  The claims about shapes are checked on construction and forward
\* calls, those about parameters on construction and training steps.
ForwardNext == InitEncoder \/ LoadCheckpoint \/ InitDecoder \/ Freeze \/ Forward

SpecForward == Init /\ [][ForwardNext]_vars

TrainNext == InitEncoder \/ LoadCheckpoint \/ InitDecoder \/ Freeze \/ TrainStep

SpecTrain == Init /\ [][TrainNext]_vars

---------------------------------------------------------------------------
(* Claims about HUTformer *)

TokenCount(window_size) == window_size[1] * window_size[2]

Constructed == pc = "ready"

Multiple(n, m) == n % m = 0

\* the stages of the encoder each received as many tokens as their window
\* holds, and none of them raised
StagesFit ==
    /\ out.U # FAIL /\ out.U[2] = TokenCount(attrs.encoder_1) /\ out.H_1 # FAIL
    /\ out.M_2 # FAIL /\ out.M_2[2] = TokenCount(attrs.encoder_2) /\ out.H_2 # FAIL
    /\ out.M_3 # FAIL /\ out.M_3[2] = TokenCount(attrs.encoder_3) /\ out.H_3 # FAIL
    /\ out.U[2] = attrs.num_patch
    /\ 2 * out.M_2[2] = attrs.num_patch
    /\ 4 * out.M_3[2] = attrs.num_patch

\* C1: for every valid configuration (len_hist and len_pred multiples of
\* len_patch, num_patch divisible by 4) and every batch size, forward returns
\* a tensor of shape (batch, len_pred, NUM_NODES, 1), in encoder mode and in
\* decoder mode, also when len_pred differs from len_hist.  Stated here for
\* three input channels and num_patch divisible by 8, where neither the
\* channel count (C3) nor the third window (C2) is in the way.
C1_OutputShape ==
    ( /\ Constructed /\ out.called /\ out.C = 3
      /\ Multiple(args.len_hist, args.len_patch)
      /\ Multiple(args.len_pred, args.len_patch)
      /\ Multiple(attrs.num_patch, 8) )
    => out.prediction = <<out.B, args.len_pred, args.NUM_NODES, 1>>

\* C2 as stated: num_patch divisible by 4 is enough for the three encoder
\* stages to receive as many tokens as their windows hold.
C2_DivisibleBy4 ==
    (Constructed /\ out.called /\ out.U # FAIL /\ Multiple(attrs.num_patch, 4))
    => StagesFit

\* C2 (amended): num_patch divisible by 8 is enough for the three encoder
\* stages: the tokens entering them (num_patch, num_patch/2, num_patch/4) are
\* as many as their windows hold, and no stage raises.
C2_DivisibleBy8 ==
    (Constructed /\ out.called /\ out.U # FAIL /\ Multiple(attrs.num_patch, 8))
    => StagesFit

C2_Witness ==
    /\ Constructed /\ out.called /\ Multiple(attrs.num_patch, 8)
    /\ StagesFit /\ out.M_3[2] = 2

ListedEncoderSide(path) ==
    path[1] \in {"SE", "embedding", "STPE", "encoder_1", "encoder_2", "encoder_3",
                 "encoder_project"}

ListedDecoderSide(path) ==
    path[1] \in {"decoder_1", "decoder_project_0", "decoder_2", "decoder_3",
                 "decoder_project"}

\* C6: in a decoder-mode model, with or without a checkpoint, exactly the
\* parameters SE, embedding, STPE, encoder_1..3 and encoder_project have their
\* gradient disabled; a training step leaves each of them as it was and
\* changes the parameters of decoder_1, decoder_project_0, decoder_2,
\* decoder_3 and decoder_project.
C6_FrozenEncoder ==
    [][ /\ (pc' = "ready" /\ args.mode = "decoder")
           => /\ Len(requires_grad') = Len(ParameterNames)
              /\ \A i \in DOMAIN requires_grad' :
                    /\ requires_grad'[i] = ~ ListedEncoderSide(ParameterNames[i])
                    /\ requires_grad'[i] = ListedDecoderSide(ParameterNames[i])
        /\ (pc = "ready" /\ args.mode = "decoder" /\ params' # params)
           => \A i \in DOMAIN params :
                 /\ ListedEncoderSide(ParameterNames[i]) => params'[i] = params[i]
                 /\ ListedDecoderSide(ParameterNames[i]) => params'[i] # params[i]
      ]_vars

C6_Witness ==
    /\ Constructed /\ args.mode = "decoder" /\ ckpt.read
    /\ \E i \in DOMAIN params : params[i].version > 0
    /\ \E i \in DOMAIN params : params[i].version = 0 /\ params[i].origin = "ckpt"

\* C7: every invalid configuration fails at construction: a mode other than
\* 'encoder'/'decoder', len_hist or len_pred not a multiple of len_patch, or
\* num_patch not divisible by 4; no instance of it exists.
C7_InvalidConfigFails ==
    ( \/ args.mode \notin {"encoder", "decoder"}
      \/ ~ Multiple(args.len_hist, args.len_patch)
      \/ ~ Multiple(args.len_pred, args.len_patch)
      \/ ~ Multiple(IntDiv(args.len_hist, args.len_patch), 4) )
    => ~ Constructed

\* C9: construction in decoder mode goes: encoder parameters, checkpoint load
\* (non-strict), decoder parameters, freeze.  The load overwrites only
\* encoder-side parameters that the checkpoint holds, decoder-named keys of
\* the checkpoint change no decoder parameter (they keep their fresh
\* initialisation), and in encoder mode the checkpoint is never read.
C9_ConstructionOrder ==
    /\ pc = "load" => (Len(params) = Len(EncoderStageParams) /\ ~ ckpt.read)
    /\ pc = "decoders" => Len(params) = Len(EncoderStageParams)
    /\ pc = "freeze" => /\ Len(params) = Len(ParameterNames)
                        /\ \A i \in DOMAIN requires_grad : requires_grad[i]
    /\ \A i \in DOMAIN params :
          /\ params[i].origin = "ckpt"
                => /\ ParameterNames[i] \in Range(EncoderStageParams)
                   /\ ParameterNames[i] \in ckpt.keys
          /\ (ckpt.read /\ pc \in {"decoders", "freeze", "ready"}
                /\ ParameterNames[i] \in ckpt.keys /\ i <= Len(EncoderStageParams))
                => params[i].origin = "ckpt"
          /\ ParameterNames[i] \in Range(DecoderStageParams)
                => params[i].origin = "init"
    /\ args.mode = "encoder" => ~ ckpt.read
    /\ args.pre_train = NONE => ~ ckpt.read

C9_Witness ==
    /\ Constructed /\ args.mode = "decoder" /\ ckpt.read
    /\ ckpt.keys \cap Range(DecoderStageParams) # {}
    /\ Len(params) = Len(ParameterNames)
    /\ \E i \in DOMAIN params : params[i].origin = "ckpt"

---------------------------------------------------------------------------
(* A WindowAttention on its own: built for a window size, then applied to  *)
(* tensors of shape (B_, N, dim).                                          *)

\* the window of encoder_1 in the default model: (2, 12)
DefaultWindow == <<2, IntDiv(IntDiv(DefaultLenHist, DefaultLenPatch), 2)>>

WindowSizes == ((0..MaxWh) \X (0..MaxWw)) \cup {DefaultWindow}

WAInit ==
    /\ wa \in [made : {FALSE}, raised : {FALSE}, dim : {embed_dim},
               num_heads : {num_heads}, window_size : WindowSizes]
    /\ args = NONE /\ pc = "new" /\ attrs = NoAttrs /\ params = << >>
    /\ requires_grad = << >> /\ ckpt = NoCheckpoint /\ out = NoCall
    /\ sm = Idle /\ al = Idle

\* WindowAttention.__init__: the buffers
WAConstruct ==
    /\ ~ wa.made /\ ~ wa.raised
    /\ wa' = IF WindowAttentionRaises(wa.window_size)
             THEN [wa EXCEPT !.raised = TRUE]
             ELSE [made |-> TRUE, raised |-> FALSE, dim |-> wa.dim,
                   num_heads |-> wa.num_heads, window_size |-> wa.window_size,
                   relative_coords_table   |-> relative_coords_table(wa.window_size),
                   relative_position_index |-> relative_position_index(wa.window_size),
                   x |-> FAIL, y |-> FAIL]
    /\ UNCHANGED <<args, pc, attrs, params, requires_grad, ckpt, out, sm, al>>

\* WindowAttention.forward on a tensor of N tokens
WAForward ==
    /\ wa.made
    /\ \E N \in (1..MaxTokens) \cup {TokenCount(wa.window_size)} :
         wa' = [wa EXCEPT
                  !.x = <<1, N, wa.dim>>,
                  !.y = WindowAttentionForward(<<1, N, wa.dim>>, wa.dim, wa.window_size,
                                               wa.num_heads, wa.relative_coords_table,
                                               wa.relative_position_index)]
    /\ UNCHANGED <<args, pc, attrs, params, requires_grad, ckpt, out, sm, al>>

WANext == WAConstruct \/ WAForward

SpecWindow == WAInit /\ [][WANext]_vars

\* the row and column of the i-th position of a window, positions counted
\* from 1 row by row
RowOf(i, window_size) == (i - 1) \div window_size[2]

ColOf(i, window_size) == (i - 1) % window_size[2]

\* C4: for window_size (Wh, Ww) the bias table has (2*Wh-1)*(2*Ww-1) rows and
\* relative_position_index is Wh*Ww x Wh*Ww with every entry in
\* 0 .. (2*Wh-1)*(2*Ww-1)-1; for (2, 12) that is 69 rows, a 24 x 24 index and
\* entries in 0..68.
C4_BiasTable ==
    wa.made =>
      LET Wh == wa.window_size[1]
          Ww == wa.window_size[2]
          index == wa.relative_position_index
          rows == Len(wa.relative_coords_table)
      IN /\ rows = (2 * Wh - 1) * (2 * Ww - 1)
         /\ Len(index) = Wh * Ww
         /\ \A i \in 1..Len(index) :
               /\ Len(index[i]) = Wh * Ww
               /\ \A j \in 1..Len(index[i]) : index[i][j] \in 0..(rows - 1)
         /\ wa.window_size = <<2, 12>> =>
               /\ rows = 69
               /\ Len(index) = 24
               /\ \A i \in 1..24 : \A j \in 1..24 : index[i][j] \in 0..68

C4_Witness ==
    /\ wa.made /\ wa.window_size = <<2, 12>>
    /\ wa.x = <<1, 24, embed_dim>> /\ wa.y = wa.x
    /\ \E i \in 1..24 : \E j \in 1..24 : wa.relative_position_index[i][j] = 68

\* C8: relative_position_index depends on the offset between two positions
\* only, and injectively: index[i][j] = index[k][l] exactly when the row
\* offsets and the column offsets of (i, j) and (k, l) agree.
C8_OffsetInjective ==
    wa.made =>
      LET ws == wa.window_size
          index == wa.relative_position_index
          P == 1..TokenCount(ws)
      IN \A i \in P : \A j \in P : \A k \in P : \A l \in P :
            (index[i][j] = index[k][l])
            <=> /\ RowOf(i, ws) - RowOf(j, ws) = RowOf(k, ws) - RowOf(l, ws)
                /\ ColOf(i, ws) - ColOf(j, ws) = ColOf(k, ws) - ColOf(l, ws)

C8_Witness ==
    /\ wa.made /\ wa.window_size[1] >= 2 /\ wa.window_size[2] >= 2
    /\ LET index == wa.relative_position_index
       IN /\ index[1][2] = index[3][4]
          /\ index[1][2] # index[2][1]
          /\ index[1][4] # index[2][3]

---------------------------------------------------------------------------
(* A SegmentMerging on its own, on tensors whose elements are named by     *)
(* their place: element (b, p, c) of the input is <<b, p, c>>.             *)

\* a tensor of shape (b, n, c), each element named by its place
Placed(b, n, c) ==
    [shape |-> <<b, n, c>>,
     rows  |-> [i \in 1..b |-> [p \in 1..n |-> [k \in 1..c |-> <<i, p, k>>]]]]

\* a faulty variant of MergePairs: the sequence axis is split as (d p)
MergeHalves(x) ==
    LET b == x.shape[1]
        n == x.shape[2]
        c == x.shape[3]
    IN IF n % 2 # 0 THEN [ok |-> FALSE, shape |-> FAIL, rows |-> << >>]
       ELSE [ok |-> TRUE,
             shape |-> <<b, n \div 2, 2 * c>>,
             rows |-> [i \in 1..b |-> [p \in 1..(n \div 2) |-> [k \in 1..(2 * c) |->
                         x.rows[i][((k - 1) \div c) * (n \div 2) + p][((k - 1) % c) + 1]]]]]

\* rearrange(x, 'b (p d) c -> b p (d c)', d=2) on the elements: position
\* p*2 + d of the input goes to token p, channels d*c .. d*c + c - 1
MergePairs(x) ==
    LET b == x.shape[1]
        n == x.shape[2]
        c == x.shape[3]
    IN IF n % 2 # 0 THEN [ok |-> FALSE, shape |-> FAIL, rows |-> << >>]
       ELSE [ok |-> TRUE,
             shape |-> <<b, n \div 2, 2 * c>>,
             rows |-> [i \in 1..b |-> [p \in 1..(n \div 2) |-> [k \in 1..(2 * c) |->
                         x.rows[i][2 * (p - 1) + ((k - 1) \div c) + 1][((k - 1) % c) + 1]]]]]

\* SegmentMerging.forward: the merged tensor, which self.norm then normalises
\* row by row; rows holds the tensor before normalisation
SegmentMergingForward(x, dim) ==
    LET merged == MergePairs(x)
    IN IF ~ merged.ok THEN merged
       ELSE IF LayerNorm(merged.shape, 2 * dim) = FAIL
            THEN [ok |-> FALSE, shape |-> FAIL, rows |-> << >>]
       ELSE merged

SMInit ==
    /\ sm \in [made : {TRUE}, called : {FALSE}, dim : 1..MaxDim]
    /\ args = NONE /\ pc = "new" /\ attrs = NoAttrs /\ params = << >>
    /\ requires_grad = << >> /\ ckpt = NoCheckpoint /\ out = NoCall
    /\ wa = Idle /\ al = Idle

SMForward ==
    /\ \E b \in 1..MaxBatch, n \in 0..MaxSeq, c \in 1..MaxDim :
         sm' = [made |-> TRUE, called |-> TRUE, dim |-> sm.dim,
                x |-> Placed(b, n, c),
                y |-> SegmentMergingForward(Placed(b, n, c), sm.dim)]
    /\ UNCHANGED <<args, pc, attrs, params, requires_grad, ckpt, out, wa, al>>

SMNext == SMForward

SpecMerge == SMInit /\ [][SMNext]_vars

\* C5: SegmentMerging maps (batch, 2p, d) to (batch, p, 2d); before the
\* normalisation, output token i is input position 2i followed by input
\* position 2i+1 (counted from 0); an input of odd length fails.
C5_MergePairs ==
    sm.called =>
      LET b == sm.x.shape[1]
          n == sm.x.shape[2]
          c == sm.x.shape[3]
      IN /\ (n % 2 = 0 /\ c = sm.dim) =>
               /\ sm.y.ok
               /\ sm.y.shape = <<b, n \div 2, 2 * c>>
               /\ Len(sm.y.rows) = b
               /\ \A i \in 1..b :
                     /\ Len(sm.y.rows[i]) = n \div 2
                     /\ \A t \in 0..((n \div 2) - 1) :
                           sm.y.rows[i][t + 1]
                             = sm.x.rows[i][2 * t + 1] \o sm.x.rows[i][2 * t + 2]
         /\ n % 2 = 1 => ~ sm.y.ok

C5_Witness ==
    /\ sm.called /\ sm.y.ok /\ sm.x.shape = <<2, 6, 2>> /\ sm.dim = 2
    /\ sm.y.rows[2][3] = << <<2, 5, 1>>, <<2, 5, 2>>, <<2, 6, 1>>, <<2, 6, 2>> >>

---------------------------------------------------------------------------
(* An AttentionLayer on its own.  Element (b, l, h, d) of the output of    *)
(* FullAttention is named by its place: it is the attention of query       *)
(* position l over the S keys, head h, plus queries[b, l, h, d].           *)

\* FullAttention.forward: V + queries, of shape (B, L, H, D)
FullAttentionOut(B, L, S, H, D) ==
    [b \in 1..B |-> [l \in 1..L |-> [h \in 1..H |-> [d \in 1..D |->
        [b |-> b, l |-> l, h |-> h, d |-> d, keys |-> S]]]]]

\* the concatenation of a sequence of sequences
RECURSIVE Flatten(_)
Flatten(ss) == IF Len(ss) = 0 THEN << >> ELSE ss[1] \o Flatten(Tail(ss))

\* a faulty variant of Memory: the axes are swapped whatever mix says
MemoryAlwaysMixed(V, L, H, mix) ==
    Flatten(Flatten([h \in 1..H |-> [l \in 1..L |-> V[l][h]]]))

\* the elements of one batch entry of out, in memory order, after
\* out.transpose(2, 1).contiguous() when mix is set
Memory(V, L, H, mix) ==
    IF mix THEN Flatten(Flatten([h \in 1..H |-> [l \in 1..L |-> V[l][h]]]))
    ELSE Flatten(Flatten(V))

\* out.view(B, L, -1): L rows of H*D consecutive elements
View(flat, L, width) == [l \in 1..L |-> SubSeq(flat, (l - 1) * width + 1, l * width)]

\* AttentionLayer.forward: out, and the value returned
AttentionLayerForward(layer, B, L, S) ==
    LET H == layer.n_heads
        D == layer.d_head
        V == FullAttentionOut(B, L, S, H, D)
        rows == [b \in 1..B |-> View(Memory(V[b], L, H, layer.mix), L, H * D)]
    IN [mix |-> layer.mix, n_heads |-> H, d_head |-> D, called |-> TRUE,
        x |-> <<B, L, S>>,
        out |-> rows,
        y |-> [b \in 1..B |-> [l \in 1..L |->
                 [out_projection_of_norm_1 |-> rows[b][l], plus |-> rows[b][l]]]]]

ALInit ==
    /\ al \in [mix : BOOLEAN, n_heads : 1..MaxHeads, d_head : 1..MaxHeadDim,
               called : {FALSE}]
    /\ args = NONE /\ pc = "new" /\ attrs = NoAttrs /\ params = << >>
    /\ requires_grad = << >> /\ ckpt = NoCheckpoint /\ out = NoCall
    /\ wa = Idle /\ sm = Idle

ALForward ==
    /\ \E B \in 1..MaxBatch, L \in 1..MaxQueries, S \in 1..MaxKeys :
         al' = AttentionLayerForward(al, B, L, S)
    /\ UNCHANGED <<args, pc, attrs, params, requires_grad, ckpt, out, wa, sm>>

ALNext == ALForward

SpecAttention == ALInit /\ [][ALNext]_vars

\* every element of output token l of batch entry b is an output of
\* FullAttention for query position l, and each of the H*D is there
OwnPosition(b, l) ==
    { al.out[b][l][c] : c \in 1..Len(al.out[b][l]) }
      = { [b |-> b, l |-> l, h |-> h, d |-> d, keys |-> al.x[3]] :
            h \in 1..al.n_heads, d \in 1..al.d_head }

\* C10 as stated: with mix enabled as with mix disabled, output token l
\* consists of exactly the H*D outputs of FullAttention for query position l,
\* and the residual adds like positions.
C10_OwnPositionAlways ==
    al.called =>
      \A b \in 1..al.x[1] : \A l \in 1..al.x[2] :
         /\ Len(al.out[b][l]) = al.n_heads * al.d_head
         /\ OwnPosition(b, l)
         /\ al.y[b][l].plus = al.out[b][l]

\* C10 (amended): with mix disabled, output token l consists of exactly the
\* H*D outputs of FullAttention for query position l.  With mix enabled,
\* element c of token l is element f = l*H*D + c of the (H, L, D) layout, the
\* output of head f div (L*D) for query position (f mod (L*D)) div D; every
\* token is made of its own query position only when H = 1 or L = 1.  In both
\* cases the residual adds like positions of out.
C10_MixMovesPositions ==
    al.called =>
      LET H == al.n_heads
          D == al.d_head
          B == al.x[1]
          L == al.x[2]
      IN /\ \A b \in 1..B : \A l \in 1..L :
               /\ Len(al.out[b][l]) = H * D
               /\ al.y[b][l].plus = al.out[b][l]
               /\ al.y[b][l].out_projection_of_norm_1 = al.out[b][l]
         /\ ~ al.mix => \A b \in 1..B : \A l \in 1..L : OwnPosition(b, l)
         /\ al.mix =>
               /\ \A b \in 1..B : \A l \in 0..(L - 1) : \A c \in 0..(H * D - 1) :
                     LET f == l * H * D + c
                     IN al.out[b][l + 1][c + 1]
                          = [b |-> b, l |-> ((f % (L * D)) \div D) + 1,
                             h |-> (f \div (L * D)) + 1, d |-> (f % D) + 1,
                             keys |-> al.x[3]]
               /\ (\A b \in 1..B : \A l \in 1..L : OwnPosition(b, l))
                     <=> (H = 1 \/ L = 1)

C10_Witness ==
    /\ al.called /\ al.mix /\ al.n_heads = 2 /\ al.d_head = 1 /\ al.x[2] = 2
    /\ al.out[1][1] = << [b |-> 1, l |-> 1, h |-> 1, d |-> 1, keys |-> al.x[3]],
                         [b |-> 1, l |-> 2, h |-> 1, d |-> 1, keys |-> al.x[3]] >>

===========================================================================
